---- MODULE Spec2Model ----
(***************************************************************************)
(* DART (dropout boosting) controller of src/boosting/dart.hpp.            *)
(*                                                                         *)
(* Scores and tree weights are doubles in the code; here they are exact    *)
(* rationals <<n, d>> in lowest terms (d > 0), so every identity below is  *)
(* the exact-arithmetic one ("modulo floating-point rounding").            *)
(* A tree is represented by its (rescalable) output on one data row; a     *)
(* score buffer holds one value per class for that row.                    *)
(***************************************************************************)
EXTENDS Integers, Sequences, FiniteSets, TLC

\* ---------------------------------------------------------------- bounds
\* number of boosting rounds explored
MaxIter == 3
\* number of GetTrainingScore calls explored between two TrainOneIter entries
MaxCalls == 3
\* number of registered validation score updaters
NumValid == 2

\* ------------------------------------------------------- exact arithmetic
Abs(n) == IF n < 0 THEN -n ELSE n

RECURSIVE GCD(_, _)
GCD(a, b) == IF b = 0 THEN a ELSE GCD(b, a % b)

\* the rational n/d (d # 0) in lowest terms with positive denominator
Rat(n, d) ==
  IF n = 0 THEN <<0, 1>>
  ELSE LET g == GCD(Abs(n), Abs(d))
           s == IF d < 0 THEN -1 ELSE 1
       IN  <<(s * n) \div g, Abs(d) \div g>>

Zero == <<0, 1>>
One == <<1, 1>>
RInt(n) == <<n, 1>>
RAdd(a, b) == Rat(a[1] * b[2] + b[1] * a[2], a[2] * b[2])
RNeg(a) == <<-a[1], a[2]>>
RMul(a, b) == Rat(a[1] * b[1], a[2] * b[2])
RDiv(a, b) == Rat(a[1] * b[2], a[2] * b[1])
RLess(a, b) == a[1] * b[2] < b[1] * a[2]

\* ------------------------------------------------------- configurations
\* values of gbdt_config_->learning_rate explored
LearningRates == {<<1, 2>>, <<1, 1>>}
\* values of gbdt_config_->drop_rate and gbdt_config_->skip_drop explored
Probabilities == {<<0, 1>>, <<1, 2>>, <<1, 1>>}
\* values of num_class_ explored
NumClasses == {1, 2}
\* output (on the modelled row) of the tree grown for class c in iteration i,
\* before shrinkage: distinct for neighbouring iterations and classes
TreeOutput(i, c) == 1 + ((i + c) % 2)

\* ------------------------------------------------------------ Random
\* Random is a seeded deterministic generator of deviates in [0,1); its
\* state is an integer in 0..RandMod-1 and NextDouble returns state/RandMod.
RandMod == 5
RandMul == 2
RandInc == 1
\* values of gbdt_config_->drop_seed explored
Seeds == {0, 2, 4}

\* the generator state after one more draw
RandStep(x) == (RandMul * x + RandInc) % RandMod
\* the deviate NextDouble() returns when it leaves the generator in state x
RandValue(x) == Rat(x, RandMod)

VARIABLES
  gbdt_config_,               \* drop_seed, skip_drop, drop_rate, xgboost_dart_mode, learning_rate
  num_class_,                 \* number of classes (one tree per class and iteration)
  random_for_drop_,           \* state of the Random used to select dropped trees
  iter_,                      \* number of completed iterations
  models_,                    \* the ensemble: weight of tree iteration * num_class_ + class
  shrinkage_rate_,            \* the rate the base step scales new trees with
  train_score_,               \* training score buffer, per class
  valid_score_,               \* validation score buffers, per class
  drop_index_,                \* the indexes of dropping trees
  is_update_score_cur_iter_,  \* the score is updated on the current iteration
  pc,                         \* position of the training session in TrainOneIter
  is_eval,                    \* argument of the TrainOneIter call in progress
  result,                     \* value the last TrainOneIter call returned (FALSE during a call)
  ret,                        \* what the last GetTrainingScore call returned
  events,                     \* steps executed since the last TrainOneIter entry
  n_draws,                    \* NextDouble calls since the last TrainOneIter entry
  log,                        \* Shrinkage/AddScore calls of DroppingTrees and Normalize since entry
  rounds,                     \* number of TrainOneIter entries so far
  entry_models,               \* models_ as it stood at the last TrainOneIter entry
  selected,                   \* iteration indexes selected for dropping since the last Normalize
  as_grown,                   \* the weight each tree of models_ was grown with
  entry_consistent,           \* every score was the sum of models_ at the last TrainOneIter entry
  replicas                    \* other controllers with this configuration, given these operations

vars == <<gbdt_config_, num_class_, random_for_drop_, iter_, models_, shrinkage_rate_,
          train_score_, valid_score_, drop_index_, is_update_score_cur_iter_, pc, is_eval,
          result, ret, events, n_draws, log, rounds, entry_models, selected, as_grown,
          entry_consistent, replicas>>

Classes == 0 .. (num_class_ - 1)
ZeroScore == [c \in Classes |-> Zero]

\* ------------------------------------------------------------ DroppingTrees
\* the comparison of is_skip turned around
IsSkip_Reversed(d, cfg) == RLess(cfg.skip_drop, d)

\* is_skip: the round drops nothing when the first deviate is below skip_drop
IsSkip(d, cfg) == RLess(d, cfg.skip_drop)
\* the selection with <= in place of <
IsSelected_OrEqual(d, cfg) == ~RLess(cfg.drop_rate, d)

\* iteration i is selected when its deviate is below drop_rate
IsSelected(d, cfg) == RLess(d, cfg.drop_rate)

RECURSIVE SelectLoop(_, _, _, _, _)
\* for (i = 0; i < iter_; ++i): one deviate per completed iteration
SelectLoop(x, i, n, idx, cfg) ==
  IF i >= n THEN [x |-> x, idx |-> idx]
  ELSE LET x1 == RandStep(x)
       IN  SelectLoop(x1, i + 1, n,
                      IF IsSelected(RandValue(x1), cfg) THEN Append(idx, i) ELSE idx, cfg)

\* drop_index_.clear() and the selection: the new generator state, the new
\* drop_index_ and the number of deviates drawn
SelectDrop(x, cfg, n) ==
  LET x1 == RandStep(x)
  IN  IF IsSkip(RandValue(x1), cfg)
      THEN [x |-> x1, idx |-> <<>>, draws |-> 1]
      ELSE LET r == SelectLoop(x1, 0, n, <<>>, cfg)
           IN  [x |-> r.x, idx |-> r.idx, draws |-> 1 + n]

\* Tree::Shrinkage(rate) on models_[t]: every output of the tree is multiplied
\* by rate, in place. s holds models, train, valid and the call log.
Shrinkage(s, t, rate) ==
  [s EXCEPT !.models[t + 1] = RMul(@, rate),
            !.log = Append(@, <<"Shrinkage", -1, t, rate>>)]

\* ScoreUpdater::AddScore(models_[t], c) on buffer b (0: training, v >= 1:
\* validation updater v): the tree's current output is added to class c
AddScore(s, b, t, c) ==
  LET out == s.models[t + 1]
  IN  IF b = 0
      THEN [s EXCEPT !.train[c] = RAdd(@, out),
                     !.log = Append(@, <<"AddScore", 0, t, out>>)]
      ELSE [s EXCEPT !.valid[b][c] = RAdd(@, out),
                     !.log = Append(@, <<"AddScore", b, t, out>>)]

\* the factor DroppingTrees rescales a dropped tree with
DropFactor == RInt(-1)

RECURSIVE DropLoop_FirstClass(_, _, _, _, _)
\* the drop loop without the loop over the classes: only the tree of class 0
DropLoop_FirstClass(s, idx, j, c, nc) ==
  IF j > Len(idx) THEN s
  ELSE LET curr_tree == idx[j] * nc
           s1 == Shrinkage(s, curr_tree, DropFactor)
           s2 == AddScore(s1, 0, curr_tree, 0)
       IN  DropLoop_FirstClass(s2, idx, j + 1, 0, nc)

RECURSIVE DropLoop(_, _, _, _, _)
\* for (auto i : drop_index_) for (curr_class ...): negate the tree and add it
\* to the training score
DropLoop(s, idx, j, c, nc) ==
  IF j > Len(idx) THEN s
  ELSE IF c >= nc THEN DropLoop(s, idx, j + 1, 0, nc)
  ELSE LET curr_tree == idx[j] * nc + c
           s1 == Shrinkage(s, curr_tree, DropFactor)
           s2 == AddScore(s1, 0, curr_tree, c)
       IN  DropLoop(s2, idx, j, c + 1, nc)

\* the rate without the guard for an empty drop_index_ in xgboost_dart_mode
ComputeShrinkageRate_NoGuard(cfg, idx) ==
  IF ~cfg.xgboost_dart_mode
  THEN RDiv(cfg.learning_rate, RAdd(One, RInt(Len(idx))))
  ELSE RDiv(cfg.learning_rate, RAdd(cfg.learning_rate, RInt(Len(idx))))

\* shrinkage_rate_ as DroppingTrees sets it from the size of drop_index_
ComputeShrinkageRate(cfg, idx) ==
  IF ~cfg.xgboost_dart_mode
  THEN RDiv(cfg.learning_rate, RAdd(One, RInt(Len(idx))))
  ELSE IF idx = <<>>
       THEN cfg.learning_rate
       ELSE RDiv(cfg.learning_rate, RAdd(cfg.learning_rate, RInt(Len(idx))))

\* ------------------------------------------------------------ Normalize
\* the first rescale by 1/k instead of 1/(k+1)
NormalizeValidFactor_OffByOne(cfg, k, rate) ==
  IF ~cfg.xgboost_dart_mode THEN RDiv(One, RInt(k)) ELSE rate

\* the first rescale by the learning rate instead of shrinkage_rate_
NormalizeValidFactor_LearningRate(cfg, k, rate) ==
  IF ~cfg.xgboost_dart_mode THEN RDiv(One, RAdd(RInt(k), One)) ELSE cfg.learning_rate

\* first rescale of a dropped tree in Normalize (before the validation update)
NormalizeValidFactor(cfg, k, rate) ==
  IF ~cfg.xgboost_dart_mode THEN RDiv(One, RAdd(RInt(k), One)) ELSE rate

\* the second rescale by -(k+1) instead of -k
NormalizeTrainFactor_OffByOne(cfg, k) ==
  IF ~cfg.xgboost_dart_mode THEN RInt(-(k + 1)) ELSE RDiv(RInt(-k), cfg.learning_rate)

\* the second rescale by -k in both modes
NormalizeTrainFactor_NoLearningRate(cfg, k) == RInt(-k)

\* second rescale of a dropped tree in Normalize (before the training update)
NormalizeTrainFactor(cfg, k) ==
  IF ~cfg.xgboost_dart_mode THEN RInt(-k) ELSE RDiv(RInt(-k), cfg.learning_rate)

RECURSIVE ValidLoop(_, _, _, _)
\* for (auto& score_updater : valid_score_updater_) AddScore
ValidLoop(s, v, t, c) ==
  IF v > Len(s.valid) THEN s ELSE ValidLoop(AddScore(s, v, t, c), v + 1, t, c)

RECURSIVE NormalizeLoop_NoStride(_, _, _, _, _, _, _)
\* the Normalize loops with the tree index computed as i + curr_class
NormalizeLoop_NoStride(s, idx, j, c, nc, cfg, rate) ==
  IF j > Len(idx) THEN s
  ELSE IF c >= nc THEN NormalizeLoop_NoStride(s, idx, j + 1, 0, nc, cfg, rate)
  ELSE LET k == Len(idx)
           curr_tree == idx[j] + c
           s1 == Shrinkage(s, curr_tree, NormalizeValidFactor(cfg, k, rate))
           s2 == ValidLoop(s1, 1, curr_tree, c)
           s3 == Shrinkage(s2, curr_tree, NormalizeTrainFactor(cfg, k))
           s4 == AddScore(s3, 0, curr_tree, c)
       IN  NormalizeLoop_NoStride(s4, idx, j, c + 1, nc, cfg, rate)

RECURSIVE NormalizeLoop(_, _, _, _, _, _, _)
\* for (auto i : drop_index_) for (curr_class ...): the two rescales and updates
NormalizeLoop(s, idx, j, c, nc, cfg, rate) ==
  IF j > Len(idx) THEN s
  ELSE IF c >= nc THEN NormalizeLoop(s, idx, j + 1, 0, nc, cfg, rate)
  ELSE LET k == Len(idx)
           curr_tree == idx[j] * nc + c
           s1 == Shrinkage(s, curr_tree, NormalizeValidFactor(cfg, k, rate))
           s2 == ValidLoop(s1, 1, curr_tree, c)
           s3 == Shrinkage(s2, curr_tree, NormalizeTrainFactor(cfg, k))
           s4 == AddScore(s3, 0, curr_tree, c)
       IN  NormalizeLoop(s4, idx, j, c + 1, nc, cfg, rate)

\* ------------------------------------------------------------ state
Count(seq, e) == Cardinality({j \in 1 .. Len(seq) : seq[j] = e})
\* GetTrainingScore calls since the last TrainOneIter entry
n_calls == Count(events, "call")
\* DroppingTrees executions since the last TrainOneIter entry
n_drops == Count(events, "drop")

Buffers == [models |-> models_, train |-> train_score_, valid |-> valid_score_, log |-> log]

\* after DART() and Init(): no tree yet, the generator seeded with drop_seed,
\* shrinkage_rate_ the learning rate (GBDT::Init); is_update_score_cur_iter_ has
\* no initializer, so it holds either value until TrainOneIter first resets it
Constructed ==
  /\ gbdt_config_ \in [drop_seed : Seeds, skip_drop : Probabilities, drop_rate : Probabilities,
                       xgboost_dart_mode : BOOLEAN, learning_rate : LearningRates]
  /\ num_class_ \in NumClasses
  /\ random_for_drop_ = gbdt_config_.drop_seed
  /\ iter_ = 0
  /\ models_ = <<>>
  /\ shrinkage_rate_ = gbdt_config_.learning_rate
  /\ train_score_ = ZeroScore
  /\ valid_score_ = [v \in 1 .. NumValid |-> ZeroScore]
  /\ drop_index_ = <<>>
  /\ is_update_score_cur_iter_ \in BOOLEAN
  /\ pc = "idle"
  /\ is_eval = FALSE
  /\ result = FALSE
  /\ ret = [len |-> 0, score |-> ZeroScore]
  /\ events = <<>>
  /\ n_draws = 0
  /\ log = <<>>
  /\ rounds = 0
  /\ entry_models = <<>>
  /\ selected = {}
  /\ as_grown = <<>>
  /\ entry_consistent = TRUE

\* the members of a controller after DART() and Init(), as a record
Fresh(flag) ==
  [random_for_drop_ |-> gbdt_config_.drop_seed,
   drop_index_ |-> <<>>,
   shrinkage_rate_ |-> gbdt_config_.learning_rate,
   is_update_score_cur_iter_ |-> flag,
   buffers |-> [models |-> <<>>, train |-> ZeroScore,
                valid |-> [v \in 1 .. NumValid |-> ZeroScore], log |-> <<>>]]

\* one controller
Init == Constructed /\ replicas = <<>>

\* two controllers constructed and initialized with the same configuration
InitPair == Constructed /\ \E flag \in BOOLEAN : replicas = <<Fresh(flag)>>

\* the sum of the stored weights of the trees of class c
RECURSIVE SumTrees(_, _, _, _)
SumTrees(m, nc, c, i) ==
  IF i * nc + c >= Len(m) THEN Zero ELSE RAdd(m[i * nc + c + 1], SumTrees(m, nc, c, i + 1))

\* the training score and every validation score are the sum of the trees
Consistent(m, train, valid) ==
  \A c \in Classes :
    /\ train[c] = SumTrees(m, num_class_, c, 0)
    /\ \A v \in 1 .. Len(valid) : valid[v][c] = SumTrees(m, num_class_, c, 0)

\* ------------------------------------------------------------ GetTrainingScore
\* the gate without the flag: every call drops
NeedsDrop_Ungated(flag) == TRUE

\* if (!is_update_score_cur_iter_)
NeedsDrop(flag) == ~flag

\* GetTrainingScore on a replica
ReplicaGetTrainingScore(o) ==
  IF NeedsDrop(o.is_update_score_cur_iter_)
  THEN LET sel == SelectDrop(o.random_for_drop_, gbdt_config_, iter_)
           s1 == DropLoop(o.buffers, sel.idx, 1, 0, num_class_)
       IN  [random_for_drop_ |-> sel.x,
            drop_index_ |-> sel.idx,
            shrinkage_rate_ |-> ComputeShrinkageRate(gbdt_config_, sel.idx),
            is_update_score_cur_iter_ |-> TRUE,
            buffers |-> [s1 EXCEPT !.log = <<>>]]
  ELSE [o EXCEPT !.is_update_score_cur_iter_ = TRUE]

\* the accessor: DroppingTrees on the first call after the flag was reset, then
\* the training score and its length are returned
GetTrainingScore ==
  LET sel == SelectDrop(random_for_drop_, gbdt_config_, iter_)
      s1 == DropLoop(Buffers, sel.idx, 1, 0, num_class_)
  IN  /\ IF NeedsDrop(is_update_score_cur_iter_)
         THEN /\ random_for_drop_' = sel.x
              /\ drop_index_' = sel.idx
              /\ models_' = s1.models
              /\ train_score_' = s1.train
              /\ valid_score_' = s1.valid
              /\ log' = s1.log
              /\ shrinkage_rate_' = ComputeShrinkageRate(gbdt_config_, sel.idx)
              /\ n_draws' = n_draws + sel.draws
              /\ selected' = selected \cup {sel.idx[j] : j \in 1 .. Len(sel.idx)}
              /\ events' = events \o <<"drop", "rate", "call">>
         ELSE /\ UNCHANGED <<random_for_drop_, drop_index_, models_, train_score_, valid_score_,
                             log, shrinkage_rate_, n_draws, selected>>
              /\ events' = Append(events, "call")
      /\ is_update_score_cur_iter_' = TRUE
      /\ ret' = [len |-> Cardinality(DOMAIN train_score_'), score |-> train_score_']
      /\ replicas' = [j \in DOMAIN replicas |-> ReplicaGetTrainingScore(replicas[j])]
      /\ UNCHANGED <<gbdt_config_, num_class_, iter_, is_eval, result, rounds, entry_models,
                     as_grown, entry_consistent>>

\* the training session (or a metric, a custom objective) asks for the score
\* between two rounds
ExternalGetTrainingScore ==
  /\ pc = "idle"
  /\ n_calls < MaxCalls
  /\ GetTrainingScore
  /\ UNCHANGED pc

\* ------------------------------------------------------------ TrainOneIter
\* entry: is_update_score_cur_iter_ = false
TrainOneIterEntry ==
  /\ pc = "idle"
  /\ iter_ < MaxIter
  /\ \E e \in BOOLEAN : is_eval' = e
  /\ is_update_score_cur_iter_' = FALSE
  /\ pc' = "base"
  /\ events' = <<>>
  /\ n_draws' = 0
  /\ log' = <<>>
  /\ rounds' = rounds + 1
  /\ entry_models' = models_
  /\ result' = FALSE
  /\ entry_consistent' = Consistent(models_, train_score_, valid_score_)
  /\ replicas' = [j \in DOMAIN replicas |->
                    [replicas[j] EXCEPT !.is_update_score_cur_iter_ = FALSE]]
  /\ UNCHANGED <<gbdt_config_, num_class_, random_for_drop_, iter_, models_, shrinkage_rate_,
                 train_score_, valid_score_, drop_index_, ret, selected, as_grown>>

\* GBDT::TrainOneIter computes its gradients from GetTrainingScore when the
\* caller passed none
BaseGetTrainingScore ==
  /\ pc = "base"
  /\ n_calls < MaxCalls
  /\ GetTrainingScore
  /\ UNCHANGED pc

\* the caller's is_eval handed through to the base step
BaseIsEval_Through == is_eval

\* is_eval as DART::TrainOneIter passes it to GBDT::TrainOneIter
BaseIsEval == FALSE

\* the base step on a replica
ReplicaGrow(o) ==
  LET new_tree == [c \in Classes |-> RMul(RInt(TreeOutput(iter_, c)), o.shrinkage_rate_)]
      b == o.buffers
  IN  [o EXCEPT !.buffers =
         [models |-> b.models \o [j \in 1 .. num_class_ |-> new_tree[j - 1]],
          train |-> [c \in Classes |-> RAdd(b.train[c], new_tree[c])],
          valid |-> [v \in 1 .. Len(b.valid) |->
                       [c \in Classes |-> RAdd(b.valid[v][c], new_tree[c])]],
          log |-> <<>>]]

\* GBDT::TrainOneIter grows one tree per class, scales it by shrinkage_rate_,
\* adds it to every score buffer and to models_, and counts the iteration
BaseGrow ==
  /\ pc = "base"
  /\ LET new_tree == [c \in Classes |-> RMul(RInt(TreeOutput(iter_, c)), shrinkage_rate_)]
     IN  /\ models_' = models_ \o [j \in 1 .. num_class_ |-> new_tree[j - 1]]
         /\ as_grown' = as_grown \o [j \in 1 .. num_class_ |-> new_tree[j - 1]]
         /\ train_score_' = [c \in Classes |-> RAdd(train_score_[c], new_tree[c])]
         /\ valid_score_' = [v \in 1 .. Len(valid_score_) |->
                               [c \in Classes |-> RAdd(valid_score_[v][c], new_tree[c])]]
  /\ iter_' = iter_ + 1
  /\ events' = events \o <<"grow">> \o (IF BaseIsEval THEN <<"eval">> ELSE <<>>)
  /\ pc' = "normalize"
  /\ replicas' = [j \in DOMAIN replicas |-> ReplicaGrow(replicas[j])]
  /\ UNCHANGED <<gbdt_config_, num_class_, random_for_drop_, shrinkage_rate_, drop_index_,
                 is_update_score_cur_iter_, is_eval, result, ret, n_draws, log, rounds,
                 entry_models, selected, entry_consistent>>

\* Normalize() on a replica
ReplicaNormalize(o) ==
  LET s == NormalizeLoop(o.buffers, o.drop_index_, 1, 0, num_class_, gbdt_config_,
                         o.shrinkage_rate_)
  IN  [o EXCEPT !.buffers = [s EXCEPT !.log = <<>>]]

\* Normalize(): every tree of drop_index_ is rescaled twice and added to the
\* validation scores and to the training score
Normalize ==
  /\ pc = "normalize"
  /\ LET s == NormalizeLoop(Buffers, drop_index_, 1, 0, num_class_, gbdt_config_, shrinkage_rate_)
     IN  /\ models_' = s.models
         /\ train_score_' = s.train
         /\ valid_score_' = s.valid
         /\ log' = s.log
  /\ events' = Append(events, "norm")
  /\ selected' = {}
  /\ pc' = "return"
  /\ replicas' = [j \in DOMAIN replicas |-> ReplicaNormalize(replicas[j])]
  /\ UNCHANGED <<gbdt_config_, num_class_, random_for_drop_, iter_, shrinkage_rate_, drop_index_,
                 is_update_score_cur_iter_, is_eval, result, ret, n_draws, rounds, entry_models,
                 as_grown, entry_consistent>>

\* if (is_eval) return EvalAndCheckEarlyStopping(); else return false;
TrainOneIterReturn ==
  /\ pc = "return"
  /\ IF is_eval
     THEN /\ \E stop \in BOOLEAN : result' = stop
          /\ events' = Append(events, "eval")
     ELSE /\ result' = FALSE
          /\ UNCHANGED events
  /\ is_eval' = FALSE
  /\ pc' = "idle"
  /\ UNCHANGED <<gbdt_config_, num_class_, random_for_drop_, iter_, models_, shrinkage_rate_,
                 train_score_, valid_score_, drop_index_, is_update_score_cur_iter_, ret,
                 n_draws, log, rounds, entry_models, selected, as_grown, entry_consistent,
                 replicas>>

Next ==
  \/ ExternalGetTrainingScore
  \/ TrainOneIterEntry
  \/ BaseGetTrainingScore
  \/ BaseGrow
  \/ Normalize
  \/ TrainOneIterReturn

Spec == Init /\ [][Next]_vars

\* two controllers driven by the same sequence of operations
SpecPair == InitPair /\ [][Next]_vars

\* ------------------------------------------------------------ observations
\* a round is the span from one TrainOneIter entry to the next
InRound == rounds > 0
\* this step is a GetTrainingScore call
IsCall == Len(events') > Len(events) /\ events'[Len(events')] = "call"
\* ... the first one since the flag was reset at entry
IsFirstCall == InRound /\ IsCall /\ n_calls = 0
\* ... a later one of the same round
IsLaterCall == InRound /\ IsCall /\ n_calls >= 1
\* this step executed DroppingTrees
IsDropStep == Len(events') > Len(events) /\ Count(events', "drop") > n_drops

Has(e) == \E j \in 1 .. Len(events) : events[j] = e
Before(e, f) == \E i, j \in 1 .. Len(events) : i < j /\ events[i] = e /\ events[j] = f
\* the round's trees were grown or Normalize ran after the last GetTrainingScore call
ChangedSinceLastCall ==
  \E j \in 1 .. Len(events) :
    /\ events[j] \in {"grow", "norm"}
    /\ \A i \in (j + 1) .. Len(events) : events[i] # "call"
\* the drop step ran in this round before the base step grew the round's trees
DroppedThisRound == InRound /\ Before("drop", "grow")
\* Normalize has run in this round
Normalized == Has("norm")

\* the trees of the iterations in drop_index_
DroppedTrees == {drop_index_[j] * num_class_ + c : j \in 1 .. Len(drop_index_), c \in Classes}

RECURSIVE SumLog(_, _)
\* the sum of the values of the log entries lg, from entry j on
SumLog(lg, j) == IF j > Len(lg) THEN Zero ELSE RAdd(lg[j][4], SumLog(lg, j + 1))
\* what DroppingTrees and Normalize added for tree t to buffer b since entry
NetDelta(b, t) ==
  SumLog(SelectSeq(log, LAMBDA e : e[1] = "AddScore" /\ e[2] = b /\ e[3] = t), 1)
\* the weight of tree t when the round was entered
Original(t) == entry_models[t + 1]
K == Len(drop_index_)

\* ------------------------------------------------------------ C1
\* C1 (as stated): in a round the first GetTrainingScore call runs DroppingTrees
\* and every later call of the round, also one made after Normalize, draws no
\* deviate, changes no tree weight, leaves drop_index_ and shrinkage_rate_
\* alone and returns the same training score as the previous call returned.
C1_LazyDropReturnsSameBuffer ==
  [][ /\ IsFirstCall => IsDropStep
      /\ IsLaterCall => /\ ~IsDropStep
                        /\ n_draws' = n_draws
                        /\ random_for_drop_' = random_for_drop_
                        /\ models_' = models_
                        /\ drop_index_' = drop_index_
                        /\ shrinkage_rate_' = shrinkage_rate_
                        /\ ret'.score = ret.score ]_vars

\* C1 (amended): in a round the first GetTrainingScore call runs DroppingTrees
\* and every later call of the round, also one made after Normalize, draws no
\* deviate, changes no tree weight, leaves drop_index_, shrinkage_rate_ and
\* the training score alone and returns the current training score, which is
\* the score the previous call returned unless the round's trees were grown
\* or Normalize ran between the two calls.
C1_LazyDropAtMostOnce ==
  [][ /\ IsFirstCall => IsDropStep
      /\ IsLaterCall => /\ ~IsDropStep
                        /\ n_draws' = n_draws
                        /\ random_for_drop_' = random_for_drop_
                        /\ models_' = models_
                        /\ drop_index_' = drop_index_
                        /\ shrinkage_rate_' = shrinkage_rate_
                        /\ train_score_' = train_score_
                        /\ ret'.score = train_score_
                        /\ (~ChangedSinceLastCall => ret'.score = ret.score) ]_vars

\* a third call of a round, made after Normalize, in a round whose first call
\* dropped trees
C1_Witness ==
  /\ InRound /\ n_calls >= 3 /\ n_drops = 1 /\ K >= 1
  /\ Before("call", "grow") /\ Before("norm", "call")
  /\ events[Len(events)] = "call"

\* ------------------------------------------------------------ C3
\* C3: in every TrainOneIter call, however many times (also zero) the base
\* step asks for the training score, DroppingTrees and the computation of
\* shrinkage_rate_ have run exactly once when the base step grows its trees,
\* never twice in the round, and the rate the base step scales the new trees
\* with is the one computed from the round's drop_index_.
C3_DropExactlyOncePerRound ==
  /\ InRound => n_drops <= 1
  /\ pc \in {"normalize", "return"} =>
       /\ n_drops = 1
       /\ Before("rate", "grow")
       /\ shrinkage_rate_ = ComputeShrinkageRate(gbdt_config_, drop_index_)

\* ------------------------------------------------------------ C4
\* C4: drop_index_ does not persist across rounds: the drop_index_ Normalize
\* iterates over in a round holds only iteration indexes that a drop selection
\* selected after the previous round's Normalize, so no tree is renormalized
\* in round n+1 because of a selection that round n made and renormalized.
C4_RoundIsolation ==
  pc = "normalize" => \A j \in 1 .. Len(drop_index_) : drop_index_[j] \in selected

\* ------------------------------------------------------------ C5
Phase(e) == CASE e = "drop" -> 1 [] e = "rate" -> 2 [] e = "grow" -> 3 [] e = "norm" -> 4
              [] OTHER -> 0
\* C5: within a round drop selection, the computation of shrinkage_rate_, the
\* base step's tree growth and Normalize happen in this order: no drop
\* selection after the round's trees were grown, no Normalize before them.
C5_StepOrder ==
  \A i, j \in 1 .. Len(events) :
    (i < j /\ Phase(events[i]) > 0 /\ Phase(events[j]) > 0) => Phase(events[i]) <= Phase(events[j])

\* ------------------------------------------------------------ C2
\* C2: standard mode, a round in which the drop step ran and Normalize has
\* run, k = |drop_index_| >= 1: for every dropped tree what DroppingTrees and
\* Normalize together added to the training score equals what Normalize
\* added to every validation score, and both are -original/(k+1).
C2_StandardNetDelta ==
  (~gbdt_config_.xgboost_dart_mode /\ DroppedThisRound /\ Normalized /\ K >= 1) =>
    \A t \in DroppedTrees :
      LET delta == NetDelta(0, t)
      IN  /\ delta = RDiv(RNeg(Original(t)), RInt(K + 1))
          /\ \A v \in 1 .. Len(valid_score_) : NetDelta(v, t) = delta

\* a completed standard-mode round of two classes that dropped two iterations
C2_Witness ==
  /\ ~gbdt_config_.xgboost_dart_mode /\ DroppedThisRound /\ Normalized
  /\ K = 2 /\ num_class_ = 2 /\ pc = "return"

\* ------------------------------------------------------------ C6
\* C6: xgboost_dart_mode, a round in which the drop step ran and Normalize has
\* run, k = |drop_index_| >= 1: for every dropped tree what DroppingTrees and
\* Normalize together added to the training score equals what Normalize
\* added to every validation score, both are -original * shrinkage_rate_, and
\* shrinkage_rate_ is lr/(lr+k).
C6_AlternateNetDelta ==
  (gbdt_config_.xgboost_dart_mode /\ DroppedThisRound /\ Normalized /\ K >= 1) =>
    /\ shrinkage_rate_ = RDiv(gbdt_config_.learning_rate,
                              RAdd(gbdt_config_.learning_rate, RInt(K)))
    /\ \A t \in DroppedTrees :
         LET delta == NetDelta(0, t)
         IN  /\ delta = RNeg(RMul(Original(t), shrinkage_rate_))
             /\ \A v \in 1 .. Len(valid_score_) : NetDelta(v, t) = delta

\* a completed xgboost_dart_mode round that dropped two iterations with a
\* learning rate other than 1
C6_Witness ==
  /\ gbdt_config_.xgboost_dart_mode /\ DroppedThisRound /\ Normalized
  /\ K = 2 /\ num_class_ = 2 /\ gbdt_config_.learning_rate # One /\ pc = "return"

\* ------------------------------------------------------------ C7
\* C7: standard mode, a round in which the drop step ran: between the drop
\* step and Normalize the weight of every dropped tree is -original, and once
\* Normalize has run it is original * k/(k+1).
C7_StandardFinalWeight ==
  (~gbdt_config_.xgboost_dart_mode /\ InRound) =>
    /\ (Has("drop") /\ ~Normalized) =>
         \A t \in DroppedTrees : models_[t + 1] = RNeg(Original(t))
    /\ (DroppedThisRound /\ Normalized) =>
         \A t \in DroppedTrees : models_[t + 1] = RMul(Original(t), Rat(K, K + 1))

\* a standard-mode round has returned after dropping and renormalizing two
\* iterations
C7_Witness ==
  /\ ~gbdt_config_.xgboost_dart_mode /\ DroppedThisRound /\ Normalized
  /\ K = 2 /\ pc = "idle"

\* ------------------------------------------------------------ C8
\* C8: xgboost_dart_mode: Normalize, in a round in which the drop step ran with
\* k = |drop_index_| >= 1, leaves every dropped tree with the weight
\* original * shrinkage_rate_ * k / learning_rate; with k = 0 it rescales no
\* tree and adds nothing to any score.
C8_AlternateFinalWeight ==
  [][ (pc = "normalize" /\ pc' = "return" /\ gbdt_config_.xgboost_dart_mode) =>
        /\ K = 0 => /\ models_' = models_
                    /\ train_score_' = train_score_
                    /\ valid_score_' = valid_score_
                    /\ log' = log
        /\ (K >= 1 /\ DroppedThisRound) =>
             \A t \in DroppedTrees :
               models_'[t + 1] = RDiv(RMul(RMul(Original(t), shrinkage_rate_), RInt(K)),
                                      gbdt_config_.learning_rate) ]_vars

\* an xgboost_dart_mode round with learning rate 1/2 has renormalized one
\* dropped iteration
C8_Witness ==
  /\ gbdt_config_.xgboost_dart_mode /\ DroppedThisRound /\ Normalized
  /\ K = 1 /\ gbdt_config_.learning_rate = <<1, 2>>

\* ------------------------------------------------------------ C9
\* C9: right after every execution of the drop step, with k = |drop_index_|:
\* shrinkage_rate_ = lr/(1+k) in standard mode; in xgboost_dart_mode it is lr
\* when k = 0 and lr/(lr+k) when k >= 1.
C9_ShrinkageRateFormula ==
  [][ IsDropStep =>
        LET k == Len(drop_index_')
            lr == gbdt_config_.learning_rate
        IN  shrinkage_rate_' =
              IF ~gbdt_config_.xgboost_dart_mode THEN RDiv(lr, RInt(1 + k))
              ELSE IF k = 0 THEN lr
              ELSE RDiv(lr, RAdd(lr, RInt(k))) ]_vars

\* the drop step has just run in xgboost_dart_mode with learning rate 1/2 and
\* selected nothing although trees exist
C9_Witness ==
  /\ gbdt_config_.xgboost_dart_mode /\ gbdt_config_.learning_rate = <<1, 2>>
  /\ Len(events) >= 3 /\ events[Len(events)] = "call" /\ events[Len(events) - 1] = "rate"
  /\ K = 0 /\ iter_ >= 1

\* ------------------------------------------------------------ C10
\* C10: with skip_drop = 1 drop_index_ is empty after every drop step, whatever
\* drop_rate and the number of iterations are, and shrinkage_rate_ is the
\* learning rate, in both modes.
C10_SkipDropAlways ==
  gbdt_config_.skip_drop = One =>
    /\ drop_index_ = <<>>
    /\ selected = {}
    /\ Has("drop") => shrinkage_rate_ = gbdt_config_.learning_rate

\* the drop step has run with skip_drop = 1, drop_rate = 1 and two iterations
\* to choose from
C10_Witness ==
  /\ gbdt_config_.skip_drop = One /\ gbdt_config_.drop_rate = One
  /\ Has("drop") /\ iter_ >= 2 /\ pc = "base"

\* ------------------------------------------------------------ C11
\* the weight the base step gave the tree at position t of models_, given the
\* rate it was grown with
GrownWith(t, rate) == RMul(RInt(TreeOutput(t \div num_class_, t % num_class_)), rate)

\* C11: with drop_rate = 0 and skip_drop < 1, over any sequence of rounds and
\* accessor calls drop_index_ is always empty, shrinkage_rate_ is the learning
\* rate, DroppingTrees and Normalize make no Shrinkage and no AddScore call,
\* and every tree keeps the weight it was grown with.
C11_ZeroDropRate ==
  (gbdt_config_.drop_rate = Zero /\ gbdt_config_.skip_drop # One) =>
    /\ drop_index_ = <<>>
    /\ shrinkage_rate_ = gbdt_config_.learning_rate
    /\ log = <<>>
    /\ \A t \in 0 .. (Len(models_) - 1) :
         models_[t + 1] = GrownWith(t, gbdt_config_.learning_rate)

\* with drop_rate = 0 and skip_drop = 1/2 a round over two earlier iterations
\* drew a deviate for each of them (it did not skip) and has been normalized
C11_Witness ==
  /\ gbdt_config_.drop_rate = Zero /\ gbdt_config_.skip_drop = <<1, 2>>
  /\ n_draws >= 3 /\ Normalized /\ pc = "return"

\* ------------------------------------------------------------ C12
\* C12: two controllers initialized with the same drop seed and configuration
\* and driven by the same sequence of operations hold the same drop_index_,
\* the same shrinkage_rate_ and the same tree weights after every operation.
C12_Reproducible ==
  \A j \in DOMAIN replicas :
    /\ replicas[j].drop_index_ = drop_index_
    /\ replicas[j].shrinkage_rate_ = shrinkage_rate_
    /\ replicas[j].buffers.models = models_

\* ------------------------------------------------------------ C14
\* C14: when the training score and every validation score were the sum of
\* the stored weights of all trees at TrainOneIter entry, they are again the
\* sum of the stored weights of all trees (the new ones included) when
\* Normalize has run and TrainOneIter returns.
C14_RoundBoundaryConsistency ==
  (pc = "return" /\ entry_consistent) => Consistent(models_, train_score_, valid_score_)

\* ------------------------------------------------------------ C15
\* models m with only the trees of the iterations in idx (dropped = TRUE) or
\* only the other trees (dropped = FALSE), the rest set to zero
Masked(m, idx, dropped) ==
  [t \in 1 .. Len(m) |->
     IF ((\E j \in 1 .. Len(idx) : idx[j] = (t - 1) \div num_class_) <=> dropped)
     THEN m[t] ELSE Zero]

\* what a DroppingTrees step does to the dropped trees and to the validation
\* scores: each dropped tree is negated, the training score loses its weight
\* of before the step, no validation score changes
DropStepFrame ==
  /\ \A t \in 1 .. Len(models_) :
       (\E j \in 1 .. Len(drop_index_') : drop_index_'[j] = (t - 1) \div num_class_)
         => models_'[t] = RNeg(models_[t])
  /\ \A c \in Classes :
       train_score_'[c] =
         RAdd(train_score_[c],
              RNeg(SumTrees(Masked(models_, drop_index_', TRUE), num_class_, c, 0)))
  /\ valid_score_' = valid_score_

\* C15: after DroppingTrees every tree of drop_index_ holds the negative of
\* its weight of before the step, the training score has lost exactly that
\* weight, no validation score has changed, and the training score is the sum
\* of the weights of the trees that are not in drop_index_.
C15_DropStepEffect ==
  [][IsDropStep =>
       /\ DropStepFrame
       /\ \A c \in Classes :
            train_score_'[c] = SumTrees(Masked(models_', drop_index_', FALSE), num_class_, c, 0)
    ]_vars

\* ------------------------------------------------------------ C16
\* C16: a DroppingTrees step never clears a selection that no Normalize has
\* processed, and when TrainOneIter has returned and no drop step has run
\* since, every tree's weight is its as-grown weight times a factor in (0, 1].
C16_DropMatchedByNormalize ==
  [][/\ IsDropStep => selected = {}
     /\ (pc' = "idle" /\ rounds' > 0 /\ events'[Len(events')] \in {"norm", "eval"}) =>
          \A t \in 1 .. Len(models_') :
            RLess(Zero, models_'[t]) /\ ~RLess(as_grown'[t], models_'[t])
    ]_vars

\* ------------------------------------------------------------ C17
\* the calls a step appended to the log
NewCalls == SubSeq(log', Len(log) + 1, Len(log'))

\* C17: after every DroppingTrees step drop_index_ is a strictly ascending
\* list of iteration indexes below iter_, and of every iteration either the
\* trees of all classes are negated and added once, negated, to the training
\* score, or no tree is touched.
C17_DropPerIteration ==
  [][IsDropStep =>
       LET idx == drop_index_'
           In(i) == \E j \in 1 .. Len(idx) : idx[j] = i
           CallsOn(t) == SelectSeq(NewCalls, LAMBDA e : e[3] = t)
       IN  /\ \A j \in 1 .. Len(idx) : idx[j] \in 0 .. (iter_ - 1)
           /\ \A j \in 1 .. (Len(idx) - 1) : idx[j] < idx[j + 1]
           /\ Len(models_') = iter_ * num_class_
           /\ \A c \in Classes :
                train_score_'[c] =
                  RAdd(train_score_[c], RNeg(SumTrees(Masked(models_, idx, TRUE), num_class_, c, 0)))
           /\ \A i \in 0 .. (iter_ - 1) :
                \/ /\ In(i)
                   /\ \A c \in Classes :
                        LET t == i * num_class_ + c
                        IN  /\ models_'[t + 1] = RNeg(models_[t + 1])
                            /\ CallsOn(t) = << <<"Shrinkage", -1, t, RInt(-1)>>,
                                               <<"AddScore", 0, t, RNeg(models_[t + 1])>> >>
                \/ /\ ~In(i)
                   /\ \A c \in Classes :
                        LET t == i * num_class_ + c
                        IN  models_'[t + 1] = models_[t + 1] /\ CallsOn(t) = <<>>
    ]_vars

\* a drop step has just selected two of three iterations of a two-class
\* ensemble and negated their four trees
C17_Witness ==
  /\ num_class_ = 2 /\ iter_ = 3 /\ Len(drop_index_) = 2
  /\ Len(events) >= 3 /\ events[Len(events) - 2] = "drop"
  /\ \A t \in DroppedTrees : RLess(models_[t + 1], Zero)
  /\ \E t \in 0 .. (Len(models_) - 1) : t \notin DroppedTrees /\ RLess(Zero, models_[t + 1])

\* ------------------------------------------------------------ C18
RECURSIVE Scaled(_, _, _)
\* weight w after the Shrinkage calls among the calls lg, from call j on
Scaled(w, lg, j) ==
  IF j > Len(lg) THEN w
  ELSE Scaled(IF lg[j][1] = "Shrinkage" THEN RMul(w, lg[j][4]) ELSE w, lg, j + 1)

C19_EvalAfterNormalize ==
  [][/\ Count(events', "eval") <= 1
     /\ \A j \in 1 .. Len(events') :
          events'[j] = "eval" => \E i \in 1 .. (j - 1) : events'[i] = "norm"
     /\ (pc = "return" /\ pc' = "idle") =>
          IF is_eval
          THEN events' = Append(events, "eval") /\ events[Len(events)] = "norm"
          ELSE result' = FALSE /\ \A j \in 1 .. Len(events') : events'[j] # "eval"
    ]_vars

\* a round that dropped a tree was called with is_eval true, evaluated after
\* Normalize and returned that the training should stop
C19_Witness ==
  /\ pc = "idle" /\ DroppedThisRound /\ K >= 1 /\ result = TRUE
  /\ events[Len(events)] = "eval" /\ events[Len(events) - 1] = "norm"
====
